---- MODULE Spec2Model ----
(***************************************************************************)
(* Model of the docker-web-interface backend:                              *)
(*   - FlaskApp.is_rate_limited / cleanup_request_counts (rate limiter),   *)
(*   - DockerService._map_event_to_state, subscribe_to_docker_events and   *)
(*     _emit_container_state (event bridge and broadcast),                 *)
(*   - the start_log_stream / stop_log_stream / disconnect socket handlers *)
(*     and the stream_logs_background task (log streaming sessions).       *)
(* The server runs on one eventlet worker: greenlets switch only at        *)
(* blocking calls, so each action below is the code between two blocking   *)
(* calls of one handler or task.                                           *)
(***************************************************************************)
EXTENDS Integers, Sequences, FiniteSets, TLC

\* ------------------------------------------------------------------ bounds
\* number of minutes the model clock can advance
MaxMinute == 3
\* largest ceiling tried for the rate limiter
MaxCeiling == 2
\* calls to is_rate_limited made one after the other, in total
MaxCalls == 4
\* start_log_stream requests handled in one run
MaxStarts == 2
\* largest log timestamp, in ticks
MaxTick == 2
\* ticks per second: log timestamps carry sub-second digits
TicksPerSec == 2
\* event threads spawned in one run, the one of FlaskApp.__init__ included
MaxSpawns == 3
\* containers the runtime lists for one snapshot
MaxListed == 2
\* events the feed delivers in a run that stamps them
MaxEvents == 3
\* lines a follow stream delivers in a run that numbers them
MaxLines == 2

\* ------------------------------------------------------------ value sets
\* Strings the code concatenates are sequences of characters.
\* Socket.IO session ids (request.sid): url-safe base64 of one fixed length,
\* may hold "_".
Clients == { <<"a", "a">>, <<"a", "_">> }
\* container ids as supplied by the client in start/stop_log_stream
ContainerIds == { <<"c">>, <<"b", "_", "c">> }
Pairs == Clients \X ContainerIds

\* statuses of the canonical table of _map_event_to_state
CanonicalStatuses ==
    {"create", "start", "restart", "unpause", "pause", "stop", "kill", "die", "destroy"}
\* further statuses the Docker event feed delivers or the table names
OtherStatuses == {"starting", "stopping", "restarting", "exec_start", "oom"}
EventStatuses == CanonicalStatuses \cup OtherStatuses

\* event.get("Type"), Actor.ID ("" when missing), event.get("status") ("" when missing)
EventTypes == {"container", "image"}
EventIds == { <<"c">>, <<>> }
\* and the event's time, which the code does not read: 0 in the runs that do
\* not look at the order of the events
Events ==
    [Type : EventTypes, ID : EventIds, status : EventStatuses \cup {""}, time : {0}]

\* what client.containers.get(container_id) gives back in _emit_container_state
FetchResults ==
    { [kind |-> "found", Running |-> TRUE], [kind |-> "found", Running |-> FALSE],
      [kind |-> "noattrs", Running |-> FALSE], [kind |-> "bare", Running |-> FALSE],
      [kind |-> "notfound", Running |-> FALSE], [kind |-> "error", Running |-> FALSE] }

VARIABLES
    \* FlaskApp.request_counts: minute -> count
    request_counts,
    \* FlaskApp.current_rate_limit
    current_rate_limit,
    \* datetime.now(), in whole minutes
    clock,
    \* history of is_rate_limited: the last call and the calls made so far
    rl,
    \* members of the Socket.IO namespace room "/" (connected sids)
    rooms,
    \* the event thread: "events" (blocked in client.events()) or "emit"
    workerPc,
    \* the event being handled and its mapped state
    evt, evState,
    \* the result of the last containers.get of _emit_container_state
    lastFetch,
    \* the publishes made for evt so far
    pubs,
    \* an exception left _emit_container_state
    escaped,
    \* FlaskApp.active_streams: stream_key -> stop flag
    active_streams,
    \* start_log_stream handlers inside eventlet.sleep(0.1), per pair
    sleeping,
    \* the stream_logs_background tasks spawned so far, oldest first
    sessions,
    \* per pair: a stop or a disconnect was handled and no start since
    stopped,
    \* the messages socketio.emit was called with in the last step
    out,
    \* DockerService._stop_event
    stop_event,
    \* event threads that are alive and no longer held by _event_thread
    orphans,
    \* event threads spawned so far
    spawned,
    \* the last call of start_event_subscription / stop_event_subscription
    call,
    \* why the thread held by _event_thread ended: "", "break", "error", "malformed"
    workerEnd,
    \* per sid, the position of its connect handler
    connectPc,
    \* the last connect handler that returned, with what it was given and sent
    conn,
    \* sids that got a container_state_changed while their connect handler was
    \* waiting for the snapshot
    early,
    \* delete_container(c): "idle", "remove" (inside container.remove), "emit", "done"
    delPc,
    \* the container c exists in the runtime
    exists,
    \* container ids for which the state deleted was published
    deletedIds,
    \* per client, the times of the stamped events whose publish it was sent
    delivered,
    \* clients that were sent the publish of an event after that of a later one
    misordered,
    \* the last request that went through the rate_limit decorator
    resp,
    \* per request handler, the call of is_rate_limited it is in: its locals
    \* between the read of the bucket and the write, and its last result
    pending,
    \* minute -> number of calls of that minute that returned False (admitted),
    \* kept for the minutes of the window
    admitted,
    \* the start_container, stop_container or restart_container call in
    \* progress or last made: its position, the fetches of its two publishes,
    \* the states it published (each with whether the runtime had been asked
    \* by then) and its result
    act

rateVars == <<request_counts, current_rate_limit, clock, rl, pending, admitted>>
bridgeVars == <<workerPc, evt, evState, lastFetch, pubs, escaped>>
streamVars == <<active_streams, sleeping, sessions, stopped>>
lifeVars == <<stop_event, orphans, spawned, call, workerEnd>>
connVars == <<connectPc, conn, early>>
delVars == <<delPc, exists, deletedIds, act>>
histVars == <<delivered, misordered, resp>>
vars == <<request_counts, current_rate_limit, clock, rl, rooms, workerPc, evt, evState,
          lastFetch, pubs, escaped, active_streams, sleeping, sessions, stopped, out,
          stop_event, orphans, spawned, call, workerEnd, connectPc, conn, early,
          delPc, exists, deletedIds, delivered, misordered, resp, pending, admitted,
          act>>

\* ---------------------------------------------------------------- messages
\* One call of socketio.emit: the event name, the room (<<>> for a broadcast),
\* the payload fields the claims read, the members of the room at that moment,
\* those the message reached (to) and those whose delivery failed (lost).
Msg(type, room, cid, state, members, lost, by, dup, raised) ==
    [type |-> type, room |-> room, cid |-> cid, state |-> state, members |-> members,
     to |-> {c \in members : c \notin lost}, lost |-> lost, by |-> by, dup |-> dup,
     raised |-> raised]

\* socketio.emit(event, data) without a room: one copy is queued for every member
\* of the namespace; a member whose transport is closed (failed) is skipped.
\* When emit itself raises, the delivery fails for every member.
Broadcast(type, cid, state, failed, raises) ==
    Msg(type, <<>>, cid, state, rooms, IF raises THEN rooms ELSE failed \cap rooms,
        0, FALSE, raises)

\* socketio.emit(event, data, room=sid): reaches sid when it is still connected.
\* what names the payload: "tail", "line", "error_line" or "".
ToRoom(type, sid, cid, what, by, dup, raises) ==
    Msg(type, sid, cid, what, {sid} \cap rooms, IF raises THEN {sid} \cap rooms ELSE {},
        by, dup, raises)

\* ------------------------------------------------------------ rate limiter
\* error_response("Rate limit exceeded", 429)
TooManyRequests == 429

\* error_response(message, status_code=400)
BadRequest == 400

\* the status of jsonify in success_response
Ok == 200

\* the request handlers (green threads) that may be inside is_rate_limited
Handlers == {1, 2}

NoPending == [pc |-> "idle", minute |-> -1, count |-> 0, ok |-> FALSE]

NoRequest == [route |-> "", limited |-> FALSE, status |-> 0, runtime |-> FALSE]

NoCall == [minute |-> -1, idx |-> 0, limited |-> FALSE, n |-> 0, lastDenied |-> -1]

\* a cleanup that removes the buckets older than three minutes only
cleanup_request_countsLate(counts, now) ==
    [m \in {k \in DOMAIN counts : ~(k < now - 3)} |-> counts[m]]

\* cleanup_request_counts with its own reading of the clock
cleanup_request_counts(counts, now) ==
    LET threshold == now - 2
    IN  [m \in {k \in DOMAIN counts : ~(k < threshold)} |-> counts[m]]

\* request_counts.get(current_minute, 0)
CountOf(counts, m) == IF m \in DOMAIN counts THEN counts[m] ELSE 0

\* a write that starts the bucket again
BumpFromZero(current_count) == 1

\* self.request_counts[current_minute] = current_count + 1
Bump(current_count) == current_count + 1

\* the comparison of line 1285 written with > : a bucket at the ceiling admits
RateCheckOffByOne(current_count, limit) == current_count > limit

\* if current_count >= self.current_rate_limit: return True
RateCheck(current_count, limit) == current_count >= limit

\* the calls that returned False, per minute of the window `counts`, after one
\* more call of minute m
Count(adm, counts, m, ok) ==
    [k \in (DOMAIN adm \cup (IF ok THEN {m} ELSE {})) \cap DOMAIN counts |->
        CountOf(adm, k) + (IF ok /\ k = m THEN 1 ELSE 0)]

\* is_rate_limited(): now is read at entry and again inside the cleanup, so the
\* cleanup may already see the next minute (later = 1).
is_rate_limited(later) ==
    /\ rl.n < MaxCalls
    /\ \A h \in Handlers : pending[h].pc = "idle"
    /\ clock + later <= MaxMinute
    /\ LET current_minute == clock
           cleaned == cleanup_request_counts(request_counts, clock + later)
           current_count == CountOf(cleaned, current_minute)
           limited == RateCheck(current_count, current_rate_limit)
           idx == IF rl.minute = current_minute THEN rl.idx + 1 ELSE 1
       IN  /\ request_counts' =
                 IF limited THEN cleaned
                 ELSE [m \in DOMAIN cleaned \cup {current_minute} |->
                          IF m = current_minute THEN Bump(current_count)
                          ELSE cleaned[m]]
           /\ rl' = [minute |-> current_minute, idx |-> idx, limited |-> limited,
                     n |-> rl.n + 1,
                     lastDenied |-> IF limited THEN current_minute ELSE rl.lastDenied]
           /\ admitted' = Count(admitted, request_counts', current_minute, ~limited)
    /\ clock' = clock + later
    /\ UNCHANGED pending
    /\ UNCHANGED <<delivered, misordered, current_rate_limit, rooms, bridgeVars,
                   lifeVars, connVars, delVars, streamVars, out>>

\* the routes registered behind @self.rate_limit (setup_routes, 120-612)
Routes ==
    {"list_containers", "get_container_logs", "get_container_cpu_stats",
     "get_resource_usage_metrics", "container_action", "get_images", "delete_image",
     "prune_containers", "prune_images", "prune_volumes", "prune_networks",
     "prune_all"}

\* get_resource_usage_metrics reads the database only (195-222); every other
\* route calls a method of docker_service
RuntimeRoutes == Routes \ {"get_resource_usage_metrics"}

\* how a request fares in its handler: the runtime call succeeds, it fails, or
\* (container_action, line 241) the action is refused before any runtime call
Hows == {"ok", "failed", "invalid"}

\* the wrapped handler f(*args, **kwargs)
Handler(route, how) ==
    [route |-> route, limited |-> FALSE,
     status |-> IF how = "ok" THEN Ok ELSE BadRequest,
     runtime |-> route \in RuntimeRoutes /\ how # "invalid"]

\* the decorator calling the handler whatever is_rate_limited returned
DecoratedCallsThrough(route, limited, how) ==
    [Handler(route, how) EXCEPT !.limited = limited]

\* decorated(): lines 1328-1331
Decorated(route, limited, how) ==
    IF limited
    THEN [route |-> route, limited |-> TRUE, status |-> TooManyRequests,
          runtime |-> FALSE]
    ELSE Handler(route, how)

\* one request to a route behind the decorator
rate_limit(route, later, how) ==
    /\ how = "invalid" => route = "container_action"
    /\ how = "failed" => route \in RuntimeRoutes
    /\ is_rate_limited(later)
    /\ resp' = Decorated(route, rl'.limited, how)

\* a handler switched out at any point of is_rate_limited
YieldsInsideAlways == TRUE

\* Handlers are green threads of one eventlet worker (async_mode "eventlet",
\* gunicorn worker_class "eventlet", workers = 1): a handler is switched out
\* only inside a blocking call, and lines 1276-1290 make none.
YieldsInside == FALSE

\* is_rate_limited, lines 1276-1284, in handler h: the clock is read, the old
\* buckets are removed and the bucket of the minute is read
AdmitRead(h, later) ==
    /\ rl.n + Cardinality({g \in Handlers : pending[g].pc = "read"}) < MaxCalls
    /\ pending[h].pc = "idle"
    /\ YieldsInside \/ \A g \in Handlers \ {h} : pending[g].pc = "idle"
    /\ clock + later <= MaxMinute
    /\ LET cleaned == cleanup_request_counts(request_counts, clock + later)
       IN  /\ request_counts' = cleaned
           /\ admitted' = Count(admitted, cleaned, clock, FALSE)
           /\ pending' = [pending EXCEPT ![h] =
                  [pc |-> "read", minute |-> clock, count |-> CountOf(cleaned, clock),
                   ok |-> FALSE]]
    /\ clock' = clock + later
    /\ UNCHANGED <<histVars, rl, current_rate_limit, rooms, bridgeVars, lifeVars,
                   connVars, delVars, streamVars, out>>

\* is_rate_limited, lines 1285-1290, in handler h: the comparison with the
\* ceiling and the write of the bucket
AdmitWrite(h) ==
    /\ pending[h].pc = "read"
    /\ LET current_minute == pending[h].minute
           current_count == pending[h].count
           limited == RateCheck(current_count, current_rate_limit)
           idx == IF rl.minute = current_minute THEN rl.idx + 1 ELSE 1
       IN  /\ request_counts' =
                 IF limited THEN request_counts
                 ELSE [m \in DOMAIN request_counts \cup {current_minute} |->
                          IF m = current_minute THEN Bump(current_count)
                          ELSE request_counts[m]]
           /\ admitted' = Count(admitted, request_counts', current_minute, ~limited)
           /\ pending' = [pending EXCEPT ![h] =
                  [pc |-> "idle", minute |-> current_minute, count |-> current_count,
                   ok |-> ~limited]]
           /\ rl' = [minute |-> current_minute, idx |-> idx, limited |-> limited,
                     n |-> rl.n + 1,
                     lastDenied |-> IF limited THEN current_minute ELSE rl.lastDenied]
    /\ UNCHANGED <<histVars, clock, current_rate_limit, rooms, bridgeVars, lifeVars,
                   connVars, delVars, streamVars, out>>

\* the wall clock reaches the next minute between two requests
Tick ==
    /\ clock < MaxMinute
    /\ clock' = clock + 1
    /\ UNCHANGED <<histVars, request_counts, current_rate_limit, rl, pending, admitted,
                   rooms, bridgeVars,
                   lifeVars, connVars, delVars, streamVars, out>>

\* ------------------------------------------------------------ state mapper
\* state_mapping.get(event_status) with no default for a status off the table
MapEventToStateNoDefault(event_status) ==
    CASE event_status = "create" -> "created"
      [] event_status = "start" -> "running"
      [] event_status = "pause" -> "paused"
      [] event_status = "unpause" -> "running"
      [] event_status = "stop" -> "stopped"
      [] event_status = "kill" -> "stopped"
      [] event_status = "die" -> "stopped"
      [] event_status = "destroy" -> "deleted"
      [] event_status = "restart" -> "running"
      [] OTHER -> "unknown"

\* _map_event_to_state: state_mapping.get(event_status, event_status)
MapEventToState(event_status) ==
    CASE event_status = "create" -> "created"
      [] event_status = "start" -> "running"
      [] event_status = "pause" -> "paused"
      [] event_status = "unpause" -> "running"
      [] event_status = "stop" -> "stopped"
      [] event_status = "kill" -> "stopped"
      [] event_status = "die" -> "stopped"
      [] event_status = "destroy" -> "deleted"
      [] event_status = "restart" -> "running"
      [] event_status = "starting" -> "starting"
      [] event_status = "stopping" -> "stopping"
      [] event_status = "restarting" -> "restarting"
      [] OTHER -> event_status

\* ------------------------------------------------------------ event bridge
NoEvent == [Type |-> "", ID |-> <<>>, status |-> "", time |-> 0]
NoFetch == [kind |-> "none", Running |-> FALSE]

\* lines 509-536 with the event state always kept
ActualStateEventWins(state, fetched) == state

\* the check against State.Running applied to every state
ActualStateAlwaysChecked(state, fetched) ==
    IF fetched.Running THEN "running" ELSE "stopped"

\* lines 509-536 of _emit_container_state: the final states running and stopped
\* are checked against State.Running of the container just fetched
ActualState(state, fetched) ==
    IF state = "running"
    THEN (IF ~fetched.Running THEN "stopped" ELSE state)
    ELSE IF state = "stopped"
         THEN (IF fetched.Running THEN "running" ELSE state)
         ELSE state

\* _emit_container_state where a container that is not found publishes nothing
EmitContainerStateDropsMissing(container_id, state, fetched, failed, raises) ==
    IF state = "deleted"
    THEN << Broadcast("container_state_changed", container_id, "deleted", failed, raises) >>
    ELSE IF fetched.kind = "found"
         THEN << Broadcast("container_state_changed", container_id,
                           ActualState(state, fetched), failed, raises) >>
         ELSE << >>

\* _emit_container_state(container_id, state): the calls of socketio.emit it makes.
\*   deleted: the minimal record, without a fetch (lines 340-370);
\*   NotFound: the minimal record with the given state (375-407);
\*   attrs missing: the record built from the fields of the container object
\*   (413-446), or nothing when the object has no such fields (447);
\*   any other exception of the fetch: logged by the outer handler (577-601);
\*   otherwise the record with the checked state (449-575).
EmitContainerState(container_id, state, fetched, failed, raises) ==
    IF state = "deleted"
    THEN << Broadcast("container_state_changed", container_id, "deleted", failed, raises) >>
    ELSE CASE fetched.kind = "notfound" ->
                << Broadcast("container_state_changed", container_id, state, failed, raises) >>
           [] fetched.kind = "noattrs" ->
                << Broadcast("container_state_changed", container_id, state, failed, raises) >>
           [] fetched.kind = "bare" -> << >>
           [] fetched.kind = "error" -> << >>
           [] OTHER ->
                << Broadcast("container_state_changed", container_id,
                             ActualState(state, fetched), failed, raises) >>

\* every socketio.emit of _emit_container_state without its try/except
EmitEscapesUnguarded(msgs) == \E i \in DOMAIN msgs : msgs[i].raised

\* every socketio.emit of _emit_container_state sits in try/except Exception
\* (lines 353-369, 397-406, 434-445, 554-575): a raising emit is logged
EmitEscapes(msgs) == FALSE

\* event.get("Type") == "container" and container_id and status (lines 909-913)
IsContainerEvent(e) == e.Type = "container" /\ e.ID # <<>> /\ e.status # ""

\* the members a list of emitted messages was queued for
Reached(msgs) == UNION {msgs[i].to : i \in DOMAIN msgs}

\* the container ids a list of emitted messages announced as deleted
DeletedBy(msgs) ==
    {msgs[i].cid : i \in {j \in DOMAIN msgs :
                             /\ msgs[j].type = "container_state_changed"
                             /\ msgs[j].state = "deleted"
                             /\ ~msgs[j].raised}}

\* the loop taking the next event while the last one is still being handled
CanPullAnytime(pc) == pc # "dead"

\* `for event in self.client.events(decode=True)` (line 904): the next event is
\* taken when the body of the loop has finished with the last one
CanPull(pc) == pc = "events"

\* subscribe_to_docker_events, one event pulled from client.events(): when the
\* stop event is set the loop is left (905-906); otherwise the event is mapped,
\* then the thread blocks in containers.get of _emit_container_state
EventPull(e) ==
    /\ CanPull(workerPc)
    /\ out' = << >>
    /\ IF stop_event
       THEN /\ workerPc' = "dead"
            /\ workerEnd' = "break"
            /\ UNCHANGED <<evt, evState, lastFetch, pubs>>
       ELSE /\ evt' = e
            /\ lastFetch' = NoFetch
            /\ pubs' = << >>
            /\ IF IsContainerEvent(e)
               THEN /\ evState' = MapEventToState(e.status)
                    /\ workerPc' = "emit"
               ELSE /\ evState' = ""
                    /\ workerPc' = "events"
            /\ UNCHANGED workerEnd
    /\ UNCHANGED <<histVars, rateVars, rooms, escaped, streamVars, stop_event, orphans,
                   spawned, call, connVars, delVars>>

\* subscribe_to_docker_events, an event of Type container pulled from the feed
\* whose Actor is not a dict: event.get("Actor", {}).get("ID") raises (line 910),
\* nothing inside the loop catches it, and the handler of line 955 ends the thread
EventPullMalformed ==
    /\ workerPc = "events"
    /\ out' = << >>
    /\ workerPc' = "dead"
    /\ workerEnd' = IF stop_event THEN "break" ELSE "malformed"
    /\ UNCHANGED <<histVars, rateVars, rooms, evt, evState, lastFetch, pubs, escaped,
                   streamVars, stop_event, orphans, spawned, call, connVars, delVars>>

\* the loop of subscribe_to_docker_events sits in try / except Exception
\* (lines 902-958): an exception of the feed is logged and the thread returns
SubscriptionEscapes == FALSE

\* subscribe_to_docker_events, client.events() raises (the connection to the
\* runtime is lost): lines 955-958
FeedError ==
    /\ workerPc = "events"
    /\ out' = << >>
    /\ workerPc' = "dead"
    /\ workerEnd' = "error"
    /\ escaped' = (escaped \/ SubscriptionEscapes)
    /\ UNCHANGED <<histVars, rateVars, rooms, evt, evState, lastFetch, pubs, streamVars,
                   stop_event, orphans, spawned, call, connVars, delVars>>

\* _emit_container_state(container_id, state) called by the event thread
EventEmit(fetched, failed, raises) ==
    /\ workerPc = "emit"
    /\ LET msgs == EmitContainerState(evt.ID, evState, fetched, failed, raises)
       IN  /\ out' = msgs
           /\ pubs' = pubs \o msgs
           /\ escaped' = (escaped \/ EmitEscapes(msgs))
           /\ early' = early \cup {c \in Reached(msgs) : connectPc[c] = "fetch"}
           /\ deletedIds' = deletedIds \cup DeletedBy(msgs)
           /\ delivered' = [c \in Clients |->
                         IF evt.time > 0 /\ c \in Reached(msgs)
                         THEN delivered[c] \cup {evt.time} ELSE delivered[c]]
           /\ misordered' = misordered \cup
                  {c \in Reached(msgs) : \E t \in delivered[c] : t > evt.time /\ evt.time > 0}
    /\ lastFetch' = IF evState = "deleted" THEN NoFetch ELSE fetched
    /\ workerPc' = "events"
    /\ UNCHANGED <<resp, rateVars, rooms, evt, evState, streamVars, lifeVars, connectPc,
                   conn, delPc, exists, act>>

\* ------------------------------------------------- start and stop of the bridge
NoLifeCall == [op |-> "", wasAlive |-> FALSE, spawnedNew |-> FALSE, ended |-> ""]

\* start_event_subscription with no test of the thread
CanSpawnAlways(pc) == TRUE

\* start_event_subscription with the thread never started again
CanSpawnOnce(pc) == FALSE

\* self._event_thread is None or not self._event_thread.is_alive() (line 989)
CanSpawn(pc) == pc = "dead"

\* start_event_subscription(): lines 987-996. The thread that was held keeps
\* running when it is alive and another one is started.
start_event_subscription ==
    /\ CanSpawn(workerPc) => spawned < MaxSpawns
    /\ call' = [op |-> "start", wasAlive |-> workerPc # "dead",
                spawnedNew |-> CanSpawn(workerPc), ended |-> workerEnd]
    /\ IF CanSpawn(workerPc)
       THEN /\ stop_event' = FALSE
            /\ orphans' = orphans + (IF workerPc # "dead" THEN 1 ELSE 0)
            /\ spawned' = spawned + 1
            /\ workerPc' = "events"
            /\ workerEnd' = ""
            /\ evt' = NoEvent
            /\ evState' = ""
            /\ lastFetch' = NoFetch
            /\ pubs' = << >>
       ELSE UNCHANGED <<stop_event, orphans, spawned, workerPc, workerEnd, evt, evState,
                        lastFetch, pubs>>
    /\ out' = << >>
    /\ UNCHANGED <<histVars, rateVars, rooms, escaped, streamVars, connVars, delVars>>

\* stop_event_subscription(): lines 998-1003. The stop event is set and the
\* caller waits in join(timeout=2); nothing is done to the blocked read of the
\* feed, so the thread sees the stop event when the next event arrives.
stop_event_subscription ==
    /\ call' = [op |-> "stop", wasAlive |-> workerPc # "dead", spawnedNew |-> FALSE,
                ended |-> workerEnd]
    /\ stop_event' = IF workerPc # "dead" THEN TRUE ELSE stop_event
    /\ out' = << >>
    /\ UNCHANGED <<histVars, rateVars, rooms, bridgeVars, streamVars, orphans, spawned,
                   workerEnd, connVars, delVars>>

\* ------------------------------------------------------------ log streaming
\* Python's None for last_log_time / since
None == -1

\* the payloads of start_log_stream / stop_log_stream that are not accepted:
\* not a dict, or without a container_id
NotADict == << "!" >>
NoContainerId == << >>
Payloads == ContainerIds \cup {NotADict, NoContainerId}

\* the tails get_container_logs(container_id, lines=100) can return: the
\* timestamps (in ticks) of its lines, oldest first; << >> is the empty string
Tails ==
    {<< >>} \cup {<<t>> : t \in 0 .. MaxTick}
            \cup {<<t, u>> : t \in 0 .. MaxTick, u \in 0 .. MaxTick}
IsSorted(tail) == \A i \in 1 .. Len(tail) - 1 : tail[i] <= tail[i + 1]

\* a registry keyed by the container id alone
StreamKeyByContainer(sid, cid) == cid

\* stream_key = f"{request.sid}_{container_id}" (lines 913 and 1244)
StreamKey(sid, cid) == sid \o << "_" >> \o cid

\* self.active_streams[stream_key] = flag
SetFlag(streams, key, flag) ==
    [k \in DOMAIN streams \cup {key} |-> IF k = key THEN flag ELSE streams[k]]

\* if stream_key in self.active_streams: del self.active_streams[stream_key]
DelKey(streams, key) == [k \in DOMAIN streams \ {key} |-> streams[k]]

\* self.active_streams.get(stream_key, True)
StopFlag(streams, key) == IF key \in DOMAIN streams THEN streams[key] ELSE TRUE

\* lines 997-1034: the timestamp of the last line of the tail, cut after the
\* seconds by the pattern \d{4}-\d{2}-\d{2}T\d{2}:\d{2}:\d{2} and converted to
\* whole epoch seconds; None when there is no tail
LastLogTime(tail) ==
    IF tail = << >> THEN None ELSE tail[Len(tail)] \div TicksPerSec

\* stream_container_logs with tail kept at 100 also when since is given
FollowKwargsKeepTail(since) == [since |-> since, tail |-> 100]

\* stream_container_logs, lines 250-279: the options of container.logs
FollowKwargs(since) ==
    IF since # None
    THEN [since |-> since, tail |-> 0]
    ELSE [since |-> None, tail |-> 100]

\* container.logs(stream=True, follow=True, since=.., tail=..) of the runtime:
\* before the new lines it sends again the last `tail` lines written so far
\* that are not older than since. The number of lines of the delivered tail
\* that the follow stream therefore sends a second time.
Replayed(tail, kw) ==
    IF kw.tail = 0
    THEN 0
    ELSE Cardinality({i \in DOMAIN tail :
                         kw.since = None \/ tail[i] >= kw.since * TicksPerSec})

Session(sid, cid) ==
    [sid |-> sid, cid |-> cid, pc |-> "tail", since |-> None, tail |-> 0,
     t3 |-> None, replay |-> 0, got |-> 0, fwd |-> << >>, tailSent |-> 0]

\* a finished task keeps nothing but its identity
Finished(s) == [Session(s.sid, s.cid) EXCEPT !.pc = "done"]

StartsSoFar ==
    LET RECURSIVE Sum(_)
        Sum(S) == IF S = {} THEN 0
                  ELSE LET p == CHOOSE x \in S : TRUE IN sleeping[p] + Sum(S \ {p})
    IN  Len(sessions) + Sum(Pairs)

\* lines 928-933 and 1182-1184: register the key with the stop flag clear and
\* spawn stream_logs_background
Register(streams, sid, cid) == SetFlag(streams, StreamKey(sid, cid), FALSE)

\* handle_start_log_stream(data), up to eventlet.sleep(0.1) when a stream is
\* registered under the key, up to its return otherwise
handle_start_log_stream(sid, data) ==
    /\ sid \in rooms
    /\ IF data \in {NotADict, NoContainerId}
       THEN /\ out' = << ToRoom("error", sid, data, "", 0, FALSE, FALSE) >>
            /\ UNCHANGED <<active_streams, sleeping, sessions, stopped>>
       ELSE /\ StartsSoFar < MaxStarts
            /\ out' = << >>
            /\ stopped' = [stopped EXCEPT ![<<sid, data>>] = FALSE]
            /\ IF StreamKey(sid, data) \in DOMAIN active_streams
               THEN /\ active_streams' = SetFlag(active_streams, StreamKey(sid, data), TRUE)
                    /\ sleeping' = [sleeping EXCEPT ![<<sid, data>>] = @ + 1]
                    /\ UNCHANGED sessions
               ELSE /\ active_streams' = Register(active_streams, sid, data)
                    /\ sessions' = Append(sessions, Session(sid, data))
                    /\ UNCHANGED sleeping
    /\ UNCHANGED <<histVars, rateVars, rooms, bridgeVars, lifeVars, connVars, delVars>>

\* handle_start_log_stream after eventlet.sleep(0.1): lines 928-1184
StartResume(sid, cid) ==
    /\ sleeping[<<sid, cid>>] > 0
    /\ sleeping' = [sleeping EXCEPT ![<<sid, cid>>] = @ - 1]
    /\ active_streams' = Register(active_streams, sid, cid)
    /\ sessions' = Append(sessions, Session(sid, cid))
    /\ out' = << >>
    /\ UNCHANGED <<histVars, rateVars, rooms, bridgeVars, lifeVars, connVars, delVars,
                   stopped>>

\* the stop flag written whether or not the key is registered
MarkStoppedAlways(streams, key) == SetFlag(streams, key, TRUE)

\* lines 1244-1246: if stream_key in self.active_streams:
\*                      self.active_streams[stream_key] = True
MarkStopped(streams, key) ==
    IF key \in DOMAIN streams THEN SetFlag(streams, key, TRUE) ELSE streams

\* handle_stop_log_stream(data)
handle_stop_log_stream(sid, data) ==
    /\ sid \in rooms
    /\ IF data \in {NotADict, NoContainerId}
       THEN /\ out' = << >>
            /\ UNCHANGED <<active_streams, stopped>>
       ELSE /\ active_streams' = MarkStopped(active_streams, StreamKey(sid, data))
            /\ stopped' = [stopped EXCEPT ![<<sid, data>>] = TRUE]
            /\ out' = << ToRoom("log_stream_stopped", sid, data, "", 0, FALSE, FALSE) >>
    /\ UNCHANGED <<histVars, rateVars, rooms, bridgeVars, lifeVars, connVars, delVars,
                   sleeping, sessions>>

\* stream_logs_background from the return of get_container_logs to the first
\* next(log_generator): lines 939-1054.
\*   error: an error is emitted and the task returns (943-967);
\*   a tail that cannot be sent: the task returns (987-995);
\*   otherwise the tail is sent when it is not empty, last_log_time is taken
\*   from its last line and the follow stream is requested.
TailReturn(i, tail, error, raises) ==
    /\ i \in DOMAIN sessions
    /\ sessions[i].pc = "tail"
    /\ IsSorted(tail)
    /\ LET s == sessions[i]
           kw == FollowKwargs(LastLogTime(tail))
       IN  IF error
           THEN /\ tail = << >>
                /\ out' = << ToRoom("error", s.sid, s.cid, "", i, FALSE, raises) >>
                /\ sessions' = [sessions EXCEPT ![i] = Finished(s)]
           ELSE IF tail = << >>
           THEN /\ ~raises
                /\ out' = << >>
                /\ sessions' = [sessions EXCEPT ![i] =
                       [s EXCEPT !.pc = "follow", !.since = kw.since, !.tail = kw.tail,
                                 !.t3 = None, !.replay = 0]]
           ELSE /\ out' = << ToRoom("log_update", s.sid, s.cid, "tail", i, FALSE, raises) >>
                /\ sessions' = [sessions EXCEPT ![i] =
                       IF raises THEN Finished(s)
                       ELSE [s EXCEPT !.pc = "follow", !.since = kw.since,
                                      !.tail = kw.tail, !.t3 = tail[Len(tail)],
                                      !.replay = Replayed(tail, kw),
                                      !.tailSent = 1]]
    /\ UNCHANGED <<histVars, rateVars, rooms, bridgeVars, lifeVars, connVars, delVars,
                   active_streams, sleeping, stopped>>

\* lines 1056-1058: the client has left the namespace, or the stop flag of the
\* key is set (a key that is not registered counts as set)
Cancelled(s) ==
    \/ s.sid \notin rooms
    \/ StopFlag(active_streams, StreamKey(s.sid, s.cid))

\* one log_update for every second line only
ForwardEveryOther(fwd, n) == IF n % 2 = 0 THEN fwd ELSE Append(fwd, n)

\* lines 1071-1077: each line of the generator is emitted as its own log_update
Forward(fwd, n) == Append(fwd, n)

\* stream_logs_background, one value out of next(log_generator): lines 1054-1150.
\*   "line": a new log line; "replay": a line of the tail sent again by the
\*   runtime; "error": the "Error: ..." line stream_container_logs yields when
\*   the container is not found or the stream fails, after which the generator
\*   ends; "eof": the stream ends.
\* The loop is left on cancellation, on a failed emit and at the end of the
\* generator, and the key is deleted (1148-1150).
\* In the runs that number the lines of a stream, n is the number of the line
\* (0 otherwise); got is the number of the last line the task received and fwd
\* the numbers of the lines it has sent on.
SessionStep(i, what, n, raises) ==
    /\ i \in DOMAIN sessions
    /\ sessions[i].pc = "follow"
    /\ what = "replay" => sessions[i].replay > 0
    /\ n > 0 => (what = "line" /\ n = sessions[i].got + 1)
    /\ LET s == sessions[i]
           key == StreamKey(s.sid, s.cid)
       IN  IF what = "eof" \/ Cancelled(s)
           THEN /\ ~raises
                /\ out' = << >>
                /\ sessions' = [sessions EXCEPT ![i] = Finished(s)]
                /\ active_streams' = DelKey(active_streams, key)
           ELSE /\ out' = << ToRoom("log_update", s.sid, s.cid,
                                    IF what = "error" THEN "error_line" ELSE "line",
                                    i, what = "replay", raises) >>
                /\ IF raises \/ what = "error"
                   THEN /\ sessions' = [sessions EXCEPT ![i] = Finished(s)]
                        /\ active_streams' = DelKey(active_streams, key)
                   ELSE /\ sessions' = [sessions EXCEPT
                               ![i].replay = IF what = "replay" THEN @ - 1 ELSE @,
                               ![i].got = IF n > 0 THEN n ELSE @,
                               ![i].fwd = IF n > 0 THEN Forward(@, n) ELSE @]
                        /\ UNCHANGED active_streams
    /\ UNCHANGED <<histVars, rateVars, rooms, bridgeVars, lifeVars, connVars, delVars,
                   sleeping, stopped>>

SessionNext(i, what, raises) == SessionStep(i, what, 0, raises)

\* the n-th line of the follow stream arrives
SessionLine(i, n, raises) == SessionStep(i, "line", n, raises)

\* ------------------------------------------------------------- disconnect
\* handle_disconnect(reason): the handler only logs; Socket.IO has taken the sid
\* out of the namespace room. active_streams is not touched.
handle_disconnect(sid) ==
    /\ sid \in rooms
    /\ rooms' = rooms \ {sid}
    /\ stopped' = [p \in Pairs |-> IF p[1] = sid THEN TRUE ELSE stopped[p]]
    /\ out' = << >>
    /\ UNCHANGED <<histVars, rateVars, bridgeVars, lifeVars, connVars, delVars,
                   active_streams, sleeping, sessions>>

\* ------------------------------------------------------- delete_container
\* the container the delete request names
Doomed == <<"c">>

\* delete_container(container_id) up to container.remove(force=True): the
\* container is found and the thread blocks in the remove call (lines 724-726)
DeleteBegin ==
    /\ delPc = "idle"
    /\ exists
    /\ delPc' = "remove"
    /\ out' = << >>
    /\ UNCHANGED <<histVars, rateVars, rooms, bridgeVars, lifeVars, streamVars, connVars,
                   exists, deletedIds, act>>

\* the runtime, serving remove(force=True): the container is killed and
\* removed; its kill, die and destroy events go to the event feed
RuntimeRemoves ==
    /\ delPc = "remove"
    /\ exists
    /\ exists' = FALSE
    /\ out' = << >>
    /\ UNCHANGED <<histVars, rateVars, rooms, bridgeVars, lifeVars, streamVars, connVars,
                   delPc, deletedIds, act>>

\* delete_container after remove has returned: _emit_container_state(id,
\* "deleted") and return (lines 727-728)
DeleteEmit(failed, raises) ==
    /\ delPc = "remove"
    /\ ~exists
    /\ LET msgs == EmitContainerState(Doomed, "deleted", NoFetch, failed, raises)
       IN  /\ out' = msgs
           /\ escaped' = (escaped \/ EmitEscapes(msgs))
           /\ early' = early \cup {c \in Reached(msgs) : connectPc[c] = "fetch"}
           /\ deletedIds' = deletedIds \cup DeletedBy(msgs)
    /\ delPc' = "done"
    /\ UNCHANGED <<histVars, rateVars, rooms, workerPc, evt, evState, lastFetch, pubs,
                   lifeVars, streamVars, connectPc, conn, exists, act>>

\* ------------------------------- start_container, stop_container, restart_container
LifecycleOps == {"start", "stop", "restart"}

\* the state each action publishes first (lines 607, 632, 657)
Transitional(op) ==
    CASE op = "start" -> "starting"
      [] op = "stop" -> "stopping"
      [] op = "restart" -> "restarting"

\* every action publishing running at its end
FinalStateAlwaysRunning(op) == "running"

\* the state each action publishes after its runtime call (lines 616, 641, 666)
FinalState(op) ==
    CASE op = "start" -> "running"
      [] op = "stop" -> "stopped"
      [] op = "restart" -> "running"

NoAction ==
    [op |-> "", pc |-> "idle", f1 |-> NoFetch, f2 |-> NoFetch, hist |-> << >>,
     called |-> FALSE, ok |-> FALSE]

\* the states of the messages msgs, each with whether the runtime call of the
\* action had been made
Published(msgs, called) ==
    [i \in DOMAIN msgs |-> [state |-> msgs[i].state, afterCall |-> called]]

\* start_container, stop_container, restart_container up to the runtime call:
\* _emit_container_state(container_id, transitional), then
\* client.containers.get and container.start() / stop() / restart()
\* (lines 605-610, 630-635, 655-660)
ActionBegin(op, fetched, failed, raises) ==
    /\ act.pc \in {"idle", "done"}
    /\ LET msgs == EmitContainerState(Doomed, Transitional(op), fetched, failed, raises)
       IN  /\ out' = msgs
           /\ escaped' = (escaped \/ EmitEscapes(msgs))
           /\ early' = early \cup {c \in Reached(msgs) : connectPc[c] = "fetch"}
           /\ deletedIds' = deletedIds \cup DeletedBy(msgs)
           /\ act' = [op |-> op, pc |-> "runtime", f1 |-> fetched, f2 |-> NoFetch,
                      hist |-> Published(msgs, FALSE), called |-> FALSE, ok |-> FALSE]
    /\ UNCHANGED <<histVars, rateVars, rooms, workerPc, evt, evState, lastFetch, pubs,
                   lifeVars, streamVars, connectPc, conn, delPc, exists>>

\* the runtime call returns. found = FALSE: containers.get raises NotFound
\* before the runtime is asked; fails: the call itself raises. Both are caught
\* (618-625, 643-650, 668-675) and the action returns (False, message).
ActionRuntime(found, fails) ==
    /\ act.pc = "runtime"
    /\ act' = [act EXCEPT !.pc = IF found /\ ~fails THEN "final" ELSE "done",
                           !.called = found]
    /\ out' = << >>
    /\ UNCHANGED <<histVars, rateVars, rooms, bridgeVars, lifeVars, streamVars, connVars,
                   delPc, exists, deletedIds>>

\* after time.sleep(0.5): _emit_container_state(container_id, final) and
\* return (True, None) (lines 612-618, 637-643, 662-668)
ActionFinal(fetched, failed, raises) ==
    /\ act.pc = "final"
    /\ LET msgs == EmitContainerState(Doomed, FinalState(act.op), fetched, failed, raises)
       IN  /\ out' = msgs
           /\ escaped' = (escaped \/ EmitEscapes(msgs))
           /\ early' = early \cup {c \in Reached(msgs) : connectPc[c] = "fetch"}
           /\ deletedIds' = deletedIds \cup DeletedBy(msgs)
           /\ act' = [act EXCEPT !.pc = "done", !.f2 = fetched, !.ok = TRUE,
                                  !.hist = @ \o Published(msgs, TRUE)]
    /\ UNCHANGED <<histVars, rateVars, rooms, workerPc, evt, evState, lastFetch, pubs,
                   lifeVars, streamVars, connectPc, conn, delPc, exists>>

\* the status of the event of the removal that follows the event e in the feed
NextRemovalStatus(e) ==
    CASE e = NoEvent -> "kill"
      [] e.status = "kill" -> "die"
      [] e.status = "die" -> "destroy"
      [] OTHER -> ""

\* the feed delivers the next event of the removal: kill and die once the
\* removal was requested, destroy once the container is gone
RemovalEventPull ==
    /\ delPc # "idle"
    /\ NextRemovalStatus(evt) # ""
    /\ NextRemovalStatus(evt) = "destroy" => ~exists
    /\ EventPull([Type |-> "container", ID |-> Doomed, status |-> NextRemovalStatus(evt),
                  time |-> 0])

\* what containers.get answers for the container: it is found, running or not,
\* as long as it exists
FetchOf(e) ==
    IF e THEN {f \in FetchResults : f.kind = "found"}
    ELSE {f \in FetchResults : f.kind = "notfound"}

\* ---------------------------------------------------------------- connect
NoConn ==
    [sid |-> << >>, snapshot |-> "none", containers |-> << >>, sent |-> << >>,
     payload |-> << >>, accepted |-> FALSE]

\* what client.containers.list(all=True) returns: per container the flags of
\* attrs["State"], or a container whose attrs cannot be processed (broken)
ListedContainers ==
    { [Restarting |-> FALSE, Running |-> TRUE, Paused |-> FALSE, broken |-> FALSE],
      [Restarting |-> FALSE, Running |-> TRUE, Paused |-> TRUE, broken |-> FALSE],
      [Restarting |-> TRUE, Running |-> TRUE, Paused |-> FALSE, broken |-> FALSE],
      [Restarting |-> FALSE, Running |-> FALSE, Paused |-> FALSE, broken |-> FALSE],
      [Restarting |-> FALSE, Running |-> FALSE, Paused |-> FALSE, broken |-> TRUE] }

Listings == UNION {[1 .. n -> ListedContainers] : n \in 0 .. MaxListed}

\* get_all_containers, lines 166-174: the state computed from the flags
ComputedState(c) ==
    IF c.Restarting THEN "restarting"
    ELSE IF c.Running THEN "running"
    ELSE IF c.Paused THEN "paused"
    ELSE "stopped"

\* get_all_containers(): (None, error) when the listing fails, otherwise the
\* containers that could be processed, in the order listed (lines 149-223)
get_all_containers(listed, fails) ==
    LET RECURSIVE Build(_)
        Build(l) ==
            IF l = << >> THEN << >>
            ELSE IF Head(l).broken THEN Build(Tail(l))
                 ELSE << ComputedState(Head(l)) >> \o Build(Tail(l))
    IN  IF fails
        THEN [containers |-> << >>, error |-> TRUE]
        ELSE [containers |-> Build(listed), error |-> FALSE]

\* handle_connect where a failed snapshot rejects the connection
ConnectReplyRejecting(containers, error) ==
    IF containers # << >> /\ ~error
    THEN [type |-> "initial_state", payload |-> containers, accepted |-> TRUE]
    ELSE [type |-> "error", payload |-> << >>, accepted |-> ~error]

\* handle_connect, lines 705-782: `if containers and not error` sends the
\* containers as initial_state, anything else (a failed snapshot, and a
\* snapshot with no container) sends an error; the handler returns True
ConnectReply(containers, error) ==
    IF containers # << >> /\ ~error
    THEN [type |-> "initial_state", payload |-> containers, accepted |-> TRUE]
    ELSE [type |-> "error", payload |-> << >>, accepted |-> TRUE]

\* handle_connect up to the call of get_all_containers (lines 669-705). The
\* server has put the sid into the namespace before it calls the handler, so
\* broadcasts reach the sid from here on. When the acknowledgment cannot be
\* emitted the handler returns False (784-793) and the sid is taken out again.
ConnectBegin(sid, raises) ==
    /\ connectPc[sid] = "out"
    /\ sid \notin rooms
    /\ out' = << Msg("connection_established", sid, << >>, "", {sid},
                     IF raises THEN {sid} ELSE {}, 0, FALSE, raises) >>
    /\ IF raises
       THEN /\ connectPc' = [connectPc EXCEPT ![sid] = "rejected"]
            /\ conn' = [NoConn EXCEPT !.sid = sid]
            /\ UNCHANGED rooms
       ELSE /\ connectPc' = [connectPc EXCEPT ![sid] = "fetch"]
            /\ rooms' = rooms \cup {sid}
            /\ UNCHANGED conn
    /\ UNCHANGED <<histVars, rateVars, bridgeVars, lifeVars, streamVars, early, delVars>>

\* handle_connect from the return of get_all_containers to its own return
\* (lines 705-782); both emits sit in try/except
ConnectReturn(sid, listed, fails, raises) ==
    /\ connectPc[sid] = "fetch"
    /\ LET got == get_all_containers(listed, fails)
           reply == ConnectReply(got.containers, got.error)
       IN  /\ out' = << ToRoom(reply.type, sid, << >>, "", 0, FALSE, raises) >>
           /\ conn' = [sid |-> sid, snapshot |-> IF got.error THEN "failed" ELSE "ok",
                       containers |-> got.containers, sent |-> << reply.type >>,
                       payload |-> reply.payload, accepted |-> reply.accepted]
           /\ connectPc' = [connectPc EXCEPT ![sid] =
                                IF reply.accepted THEN "in" ELSE "rejected"]
           /\ rooms' = IF reply.accepted THEN rooms ELSE rooms \ {sid}
    /\ UNCHANGED <<histVars, rateVars, bridgeVars, lifeVars, streamVars, early, delVars>>

\* ------------------------------------------------------------------- Init
\* The state after FlaskApp.__init__, with the clients of the run connected
\* (a sid is never used for a second connection).
InitOf(limits, members) ==
    /\ request_counts = [m \in {} |-> 0]
    /\ current_rate_limit \in limits
    /\ clock = 0
    /\ rl = NoCall
    /\ rooms = members
    /\ workerPc = "events"
    /\ evt = NoEvent
    /\ evState = ""
    /\ lastFetch = NoFetch
    /\ pubs = << >>
    /\ escaped = FALSE
    /\ active_streams = [k \in {} |-> FALSE]
    /\ sleeping = [p \in Pairs |-> 0]
    /\ sessions = << >>
    /\ stopped = [p \in Pairs |-> FALSE]
    /\ out = << >>
    /\ stop_event = FALSE
    /\ orphans = 0
    /\ spawned = 1
    /\ call = NoLifeCall
    /\ workerEnd = ""
    /\ connectPc = [c \in Clients |-> IF c \in members THEN "in" ELSE "out"]
    /\ conn = NoConn
    /\ early = {}
    /\ delPc = "idle"
    /\ exists = TRUE
    /\ deletedIds = {}
    /\ delivered = [c \in Clients |-> {}]
    /\ misordered = {}
    /\ resp = NoRequest
    /\ pending = [h \in Handlers |-> NoPending]
    /\ admitted = [m \in {} |-> 0]
    /\ act = NoAction

InitWith(limits) == InitOf(limits, Clients)

\* ------------------------------------------------- rate limiter specification
\* Config.validate rejects a ceiling below 1 (config.py, line 50)
InitRate == InitWith(1 .. MaxCeiling)

NextRate ==
    \/ \E later \in {0, 1} : is_rate_limited(later) /\ UNCHANGED resp
    \/ Tick

SpecRate == InitRate /\ [][NextRate]_vars

\* two handlers calling is_rate_limited
NextAdmit ==
    \/ \E h \in Handlers, later \in {0, 1} : AdmitRead(h, later)
    \/ \E h \in Handlers : AdmitWrite(h)
    \/ Tick

SpecAdmit == InitRate /\ [][NextAdmit]_vars

\* requests to the routes behind the decorator
NextHttp ==
    \/ \E route \in Routes, later \in {0, 1}, how \in Hows : rate_limit(route, later, how)
    \/ Tick

SpecHttp == InitRate /\ [][NextHttp]_vars

\* ------------------------------------------------- event bridge specification
InitBridge == InitWith({1})

NextBridge ==
    \/ \E e \in Events : EventPull(e)
    \/ \E fetched \in FetchResults, failed \in SUBSET Clients, raises \in BOOLEAN :
           EventEmit(fetched, failed, raises)
    \/ \E sid \in Clients : handle_disconnect(sid)

SpecBridge == InitBridge /\ [][NextBridge]_vars

\* ------------------------------------------------ log streaming specification
InitStream == InitWith({1})

\* the (sid, container id) pairs the requests of a run are drawn from: two
\* clients, each with one container of its own
StreamPairs ==
    { << <<"a", "a">>, <<"b", "_", "c">> >>, << <<"a", "_">>, <<"c">> >> }

\* the steps of the handlers and tasks, for requests on the pairs P and tail
\* fetches returning one of T
NextStreamOn(P, T) ==
    \/ \E p \in P : handle_start_log_stream(p[1], p[2])
    \/ \E p \in P, data \in {NotADict, NoContainerId} :
           handle_start_log_stream(p[1], data)
    \/ \E p \in P : StartResume(p[1], p[2])
    \/ \E p \in P : handle_stop_log_stream(p[1], p[2])
    \/ \E p \in P, data \in {NotADict, NoContainerId} :
           handle_stop_log_stream(p[1], data)
    \/ \E p \in P : handle_disconnect(p[1])
    \/ \E i \in 1 .. MaxStarts, tail \in T, error \in BOOLEAN, raises \in BOOLEAN :
           TailReturn(i, tail, error, raises)
    \/ \E i \in 1 .. MaxStarts, what \in {"line", "replay", "error", "eof"},
          raises \in BOOLEAN :
           SessionNext(i, what, raises)

NextStream == NextStreamOn(StreamPairs, {<< >>, << 0 >>})

SpecStream == InitStream /\ [][NextStream]_vars

\* two clients following the same container
DistinctPairs ==
    { << <<"a", "a">>, <<"c">> >>, << <<"a", "_">>, <<"c">> >> }

NextPairs == NextStreamOn(DistinctPairs, {<< >>, << 0 >>})

SpecPairs == InitStream /\ [][NextPairs]_vars

\* the steps a handler or a task takes by itself: the sleep of a replacing
\* start ends, the runtime answers the tail fetch
TaskStep ==
    \/ \E p \in DistinctPairs : StartResume(p[1], p[2])
    \/ \E i \in 1 .. MaxStarts, tail \in {<< >>, << 0 >>}, error \in BOOLEAN,
          raises \in BOOLEAN :
           TailReturn(i, tail, error, raises)

\* Sleeps end and tail fetches return; nothing makes a container write a line.
SpecPairsFair == SpecPairs /\ WF_vars(TaskStep)

\* one client following one container whose lines are numbered
NextLines ==
    \/ NextStreamOn({ << <<"a", "a">>, <<"c">> >> }, {<< >>, << 0 >>})
    \/ \E i \in 1 .. MaxStarts, n \in 1 .. MaxLines, raises \in BOOLEAN :
           SessionLine(i, n, raises)

SpecLines == InitStream /\ [][NextLines]_vars

\* one client following one container, with every tail
NextTail == NextStreamOn({ << <<"a", "a">>, <<"c">> >> }, Tails)

SpecTail == InitStream /\ [][NextTail]_vars

\* ------------------------------------------ bridge start / stop specification
\* the events of one container the feed delivers in these runs
LifeEvents == {e \in Events : e.ID = <<"c">> /\ e.status \in {"start", "die"}}

\* the steps of the event thread itself once it holds an event
WorkerStep == \E fetched \in FetchResults, raises \in BOOLEAN : EventEmit(fetched, {}, raises)

NextLife ==
    \/ start_event_subscription
    \/ stop_event_subscription
    \/ \E e \in LifeEvents : EventPull(e)
    \/ EventPullMalformed
    \/ FeedError
    \/ WorkerStep

SpecLife == InitBridge /\ [][NextLife]_vars

\* The runtime answers every containers.get, so a thread that holds an event
\* finishes handling it; nothing makes the runtime deliver a further event.
SpecLifeFair == SpecLife /\ WF_vars(WorkerStep)

\* ---------------------------------------------------- connect specification
\* the client that connects during the run; the other one is connected already
Newcomers == { <<"a", "a">> }

InitConnect == InitOf({1}, Clients \ Newcomers)

\* the events of one container the feed delivers while clients connect: one
\* status of the canonical table and one outside it
ConnectEvents ==
    {e \in Events : e.Type = "container" /\ e.ID = <<"c">> /\ e.status \in {"start", "oom"}}

NextConnect ==
    \/ \E sid \in Newcomers, raises \in BOOLEAN : ConnectBegin(sid, raises)
    \/ \E sid \in Newcomers, listed \in Listings, fails \in BOOLEAN, raises \in BOOLEAN :
           ConnectReturn(sid, listed, fails, raises)
    \/ \E sid \in Clients : handle_disconnect(sid)
    \/ \E e \in ConnectEvents : EventPull(e)
    \/ \E fetched \in {f \in FetchResults : f.kind \in {"found", "notfound"}} :
           EventEmit(fetched, {}, FALSE)

SpecConnect == InitConnect /\ [][NextConnect]_vars

\* a client connects and asks for the logs of one container while requests to a
\* route arrive
NextGate ==
    \/ \E how \in {"ok", "failed"} : rate_limit("list_containers", 0, how)
    \/ Tick
    \/ \E sid \in Newcomers, raises \in BOOLEAN : ConnectBegin(sid, raises)
    \/ \E sid \in Newcomers, listed \in Listings, fails \in BOOLEAN :
           ConnectReturn(sid, listed, fails, FALSE)
    \/ \E sid \in Newcomers : handle_start_log_stream(sid, <<"c">>)
    \/ \E sid \in Newcomers : StartResume(sid, <<"c">>)
    \/ \E i \in 1 .. MaxStarts, error \in BOOLEAN : TailReturn(i, << >>, error, FALSE)

SpecGate == InitConnect /\ [][NextGate]_vars

\* ------------------------------------------------- event order specification
\* the events of one container, stamped in the order the feed delivers them
OrderEvents ==
    [Type : EventTypes, ID : {<<"c">>}, status : {"start", "die"}, time : 1 .. MaxEvents]

NextOrder ==
    \/ \E e \in OrderEvents : e.time = evt.time + 1 /\ EventPull(e)
    \/ \E fetched \in {f \in FetchResults : f.kind \in {"found", "notfound", "error"}},
          failed \in SUBSET Clients, raises \in BOOLEAN :
           EventEmit(fetched, failed, raises)
    \/ \E sid \in Clients : handle_disconnect(sid)

SpecOrder == InitBridge /\ [][NextOrder]_vars

\* ------------------------------------------------------ delete specification
NextDelete ==
    \/ DeleteBegin
    \/ RuntimeRemoves
    \/ \E failed \in SUBSET Clients, raises \in BOOLEAN : DeleteEmit(failed, raises)
    \/ RemovalEventPull
    \/ \E fetched \in FetchOf(exists), failed \in SUBSET Clients, raises \in BOOLEAN :
           EventEmit(fetched, failed, raises)
    \/ \E sid \in Clients : handle_disconnect(sid)

SpecDelete == InitBridge /\ [][NextDelete]_vars

\* lifecycle requests for one container while clients come and go
NextAction ==
    \/ \E op \in LifecycleOps, fetched \in FetchResults, failed \in SUBSET Clients,
          raises \in BOOLEAN :
           ActionBegin(op, fetched, failed, raises)
    \/ \E found \in BOOLEAN, fails \in BOOLEAN : ActionRuntime(found, fails)
    \/ \E fetched \in FetchResults, failed \in SUBSET Clients, raises \in BOOLEAN :
           ActionFinal(fetched, failed, raises)
    \/ \E sid \in Clients : handle_disconnect(sid)

SpecAction == InitBridge /\ [][NextAction]_vars

\* ===================================================================== claims

\* The canonical table of the specification, as pairs.
CanonicalTable ==
    [s \in CanonicalStatuses |->
        CASE s = "create" -> "created"
          [] s \in {"start", "restart", "unpause"} -> "running"
          [] s = "pause" -> "paused"
          [] s \in {"stop", "kill", "die"} -> "stopped"
          [] s = "destroy" -> "deleted"]

\* the event thread has finished handling the event evt
EventHandled == workerPc = "events" /\ evt # NoEvent

EventOfContainer == evt.Type = "container" /\ evt.ID # <<>> /\ evt.status # ""

C7_RateLimitBoundary ==
    rl.n > 0 => (rl.limited <=> rl.idx > current_rate_limit)

\* C7 witness: the first call of a minute is admitted right after a minute in
\* which the ceiling was reached and a call was denied.
C7_Witness ==
    /\ rl.idx = 1
    /\ ~rl.limited
    /\ rl.minute > 0
    /\ rl.lastDenied = rl.minute - 1
    /\ CountOf(request_counts, rl.minute - 1) = current_rate_limit

\* C8: the state mapped for a container event is the canonical value of its
\* status when the status is in the canonical table, and the status itself,
\* unchanged, for every other status.
C8_MapperTable ==
    EventOfContainer =>
        evState = IF evt.status \in CanonicalStatuses
                  THEN CanonicalTable[evt.status]
                  ELSE evt.status

\* C8 witness: a status outside the canonical table has been mapped.
C8_Witness ==
    /\ EventOfContainer
    /\ evt.status \notin CanonicalStatuses
    /\ evState = evt.status
    /\ workerPc = "emit"

\* C9 as claimed: every container event with an id and a status is published
\* exactly once and reaches all connected clients; any other event is not
\* published.
C9_EveryContainerEventPublished ==
    EventHandled =>
        IF EventOfContainer
        THEN /\ Len(pubs) = 1
             /\ pubs[1].type = "container_state_changed"
             /\ pubs[1].cid = evt.ID
             /\ pubs[1].to = pubs[1].members
        ELSE pubs = << >>

\* C9 amended: a container event with an id and a status whose re-fetch returns
\* the container or reports it not found is published exactly once for its id,
\* to every connected client whose delivery does not fail; a container event
\* whose re-fetch fails with another error or returns an object without
\* attributes and fields, and every event that is not a container event with an
\* id and a status, is not published.
C9_ContainerEventPublishedOnce ==
    EventHandled =>
        IF EventOfContainer /\ lastFetch.kind \notin {"error", "bare"}
        THEN /\ Len(pubs) = 1
             /\ pubs[1].type = "container_state_changed"
             /\ pubs[1].cid = evt.ID
             /\ pubs[1].room = << >>
             /\ \A c \in pubs[1].members : c \notin pubs[1].lost => c \in pubs[1].to
        ELSE pubs = << >>

\* C9 witness: a die event for a container that no longer exists was published
\* once and reached a client.
C9_Witness ==
    /\ EventHandled
    /\ EventOfContainer
    /\ evt.status = "die"
    /\ lastFetch.kind = "notfound"
    /\ Len(pubs) = 1
    /\ pubs[1].to # {}

\* C10 as claimed: the published state is the mapped state of the event's
\* status, whatever the fetch reports.
C10_EventStateWins ==
    (EventHandled /\ Len(pubs) = 1) => pubs[1].state = evState

\* C10 amended: the published state is the mapped state of the event's status,
\* except for the mapped states running and stopped of a container that was
\* fetched with its attributes: there the fetched Running flag decides
\* (running when it is set, stopped when it is not).
C10_EventStateWinsButFinalStates ==
    (EventHandled /\ Len(pubs) = 1) =>
        pubs[1].state =
            IF lastFetch.kind = "found" /\ evState \in {"running", "stopped"}
            THEN (IF lastFetch.Running THEN "running" ELSE "stopped")
            ELSE evState

\* C10 witness: a stop-like event was published as running because the fetch
\* still reported the container running.
C10_Witness ==
    /\ EventHandled
    /\ Len(pubs) = 1
    /\ evState = "stopped"
    /\ lastFetch.kind = "found"
    /\ lastFetch.Running
    /\ pubs[1].state = "running"

\* C35: the state published for an event differs from the mapped state of the
\* event only when the mapped state is running or stopped and the container
\* was fetched with its attributes: running is then published as stopped when
\* the fetched container is not running, stopped as running when it is
\* running; every other mapped state, an unknown status included, is
\* published as it is, whatever the fetch reports.
C35_OverrideOnlyForFinalStates ==
    (EventHandled /\ Len(pubs) = 1) =>
        /\ evState \notin {"running", "stopped"} => pubs[1].state = evState
        /\ pubs[1].state # evState =>
              /\ lastFetch.kind = "found"
              /\ evState = "running" => (~lastFetch.Running /\ pubs[1].state = "stopped")
              /\ evState = "stopped" => (lastFetch.Running /\ pubs[1].state = "running")
        /\ (lastFetch.kind = "found" /\ evState = "running" /\ ~lastFetch.Running) =>
              pubs[1].state = "stopped"
        /\ (lastFetch.kind = "found" /\ evState = "stopped" /\ lastFetch.Running) =>
              pubs[1].state = "running"

\* C35 witness: a pause event of a container that the fetch reports running
\* was published as paused.
C35_Witness ==
    /\ EventHandled
    /\ Len(pubs) = 1
    /\ evt.status = "pause"
    /\ evState = "paused"
    /\ lastFetch.kind = "found"
    /\ lastFetch.Running
    /\ pubs[1].state = "paused"

\* ---------------------------------------------------------- lifecycle claims
\* the states the three actions are to publish, first and last
TransitionalOf ==
    [op \in LifecycleOps |->
        CASE op = "start" -> "starting" [] op = "stop" -> "stopping"
          [] op = "restart" -> "restarting"]
FinalOf ==
    [op \in LifecycleOps |->
        CASE op = "start" -> "running" [] op = "stop" -> "stopped"
          [] op = "restart" -> "running"]

\* C37 as claimed: an action that returned success has published its
\* transitional state before the runtime call and its final state after it,
\* and nothing else.
C37_TransitionalThenFinal ==
    (act.pc = "done" /\ act.ok) =>
        act.hist = << [state |-> TransitionalOf[act.op], afterCall |-> FALSE],
                      [state |-> FinalOf[act.op], afterCall |-> TRUE] >>

\* C37 amended: an action that returned success has made its two publishes in
\* that order, the first before the runtime call and the second after it; the
\* transitional state is published as it is, the final state as the re-fetch
\* of the container reports it when the container is fetched with its
\* attributes (running if it is running, stopped if not) and as it is
\* otherwise; a publish whose re-fetch fails with another error than not-found,
\* or returns an object without attributes and fields, is left out.
C37_TransitionalThenCheckedFinal ==
    (act.pc = "done" /\ act.ok) =>
        act.hist =
            (IF act.f1.kind \in {"error", "bare"} THEN << >>
             ELSE << [state |-> TransitionalOf[act.op], afterCall |-> FALSE] >>)
            \o
            (IF act.f2.kind \in {"error", "bare"} THEN << >>
             ELSE << [state |-> IF act.f2.kind = "found"
                                THEN (IF act.f2.Running THEN "running" ELSE "stopped")
                                ELSE FinalOf[act.op],
                      afterCall |-> TRUE] >>)

\* C37 witness: start_container returned success after publishing starting and
\* then stopped, the container having exited before the re-fetch.
C37_Witness ==
    /\ act.pc = "done"
    /\ act.ok
    /\ act.op = "start"
    /\ act.f2.kind = "found"
    /\ ~act.f2.Running
    /\ act.hist = << [state |-> "starting", afterCall |-> FALSE],
                     [state |-> "stopped", afterCall |-> TRUE] >>

\* C40: an action that has returned and published a transitional state has
\* published a final state after it, also when its runtime call failed.
C40_TransitionalIsFollowed ==
    (act.pc = "done" /\ act.hist # << >>
       /\ act.hist[1].state \in {"starting", "stopping", "restarting"}) =>
        /\ Len(act.hist) = 2
        /\ act.hist[2].state \in {"running", "stopped"}

\* ---------------------------------------------------------- streaming claims
SamePair(i, j) == sessions[i].sid = sessions[j].sid /\ sessions[i].cid = sessions[j].cid

\* a task that is running, whose client is connected and whose key is
\* registered with the stop flag clear: it forwards the next line it gets
Forwarding(i) ==
    /\ sessions[i].pc # "done"
    /\ sessions[i].sid \in rooms
    /\ ~StopFlag(active_streams, StreamKey(sessions[i].sid, sessions[i].cid))

\* no handler is inside its sleep and every task is waiting for the next log
\* line or has ended: nothing moves until the runtime sends a line
Quiescent ==
    /\ \A p \in Pairs : sleeping[p] = 0
    /\ \A i \in DOMAIN sessions : sessions[i].pc \in {"follow", "done"}

\* C1: for every (client, container) pair at most one streaming task is live
\* and forwarding at any time, also after a second start for the pair.
C1_AtMostOneLiveSession ==
    \A i \in DOMAIN sessions : \A j \in DOMAIN sessions :
        (i # j /\ SamePair(i, j)) => ~(Forwarding(i) /\ Forwarding(j))

\* C2: when a task sends a log_update, every task started earlier for the same
\* pair has been torn down.
C2_ReplacedTornDownFirst ==
    \A k \in DOMAIN out :
        (out[k].type = "log_update" /\ out[k].by \in DOMAIN sessions) =>
            \A i \in 1 .. out[k].by - 1 :
                SamePair(i, out[k].by) => sessions[i].pc = "done"

\* C3: once nothing moves without a further log line, every task of a client
\* that has disconnected has been torn down.
C3_DisconnectTearsDown ==
    Quiescent =>
        \A i \in DOMAIN sessions :
            sessions[i].sid \notin rooms => sessions[i].pc = "done"

\* C4: no log_update reaches a client for a pair for which a stop was handled,
\* or whose client disconnected, with no start for the pair since.
C4_NoUpdateAfterStop ==
    \A k \in DOMAIN out :
        (out[k].type = "log_update" /\ out[k].to # {}) =>
            ~stopped[<<out[k].room, out[k].cid>>]

\* C22: the stop flag of a session goes from false to true only: while a task
\* is live, a stop flag that is set under its key stays set.
C22_CancelledMonotonic ==
    [][ \A i \in DOMAIN sessions :
          LET key == StreamKey(sessions[i].sid, sessions[i].cid)
          IN  ( /\ sessions[i].pc # "done"
                /\ sessions'[i].pc # "done"
                /\ key \in DOMAIN active_streams
                /\ active_streams[key] ) =>
                  (key \in DOMAIN active_streams' => active_streams'[key])
      ]_vars

\* C23: a stop_log_stream sets the stop flag of the entry under its own key
\* when there is one; it creates no entry, changes no other entry, starts and
\* ends no task, and a second stop changes nothing more.
C23_StopTouchesOwnEntryOnly ==
    [][ (out' # << >> /\ out'[1].type = "log_stream_stopped") =>
          LET key == out'[1].room \o << "_" >> \o out'[1].cid
          IN  /\ DOMAIN active_streams' = DOMAIN active_streams
              /\ \A k \in DOMAIN active_streams :
                    active_streams'[k] = IF k = key THEN TRUE ELSE active_streams[k]
              /\ (key \in DOMAIN active_streams /\ active_streams[key]) =>
                    active_streams' = active_streams
              /\ sessions' = sessions
              /\ sleeping' = sleeping
      ]_vars

\* C23 witness: a stop was handled for a pair with no entry while the other
\* pair has one, which is still there with its flag clear.
C23_Witness ==
    /\ out # << >>
    /\ out[1].type = "log_stream_stopped"
    /\ out[1].room \o << "_" >> \o out[1].cid \notin DOMAIN active_streams
    /\ \E k \in DOMAIN active_streams : ~active_streams[k]

\* C24: a live task whose pair was stopped, with the stop flag set under its
\* key, eventually ends, also when the container writes no further line.
C24_StopEndsSession ==
    \A i \in 1 .. MaxStarts :
        ( /\ i \in DOMAIN sessions
          /\ sessions[i].pc # "done"
          /\ stopped[<<sessions[i].sid, sessions[i].cid>>]
          /\ StopFlag(active_streams, StreamKey(sessions[i].sid, sessions[i].cid)) )
        ~> (i \in DOMAIN sessions /\ sessions[i].pc = "done")

\* C25: when the tail fetch of a task fails, the task sends one error and,
\* unless another task of the pair is running, no entry is left in the
\* registry under the key of the pair.
C25_TailFailureLeavesNoEntry ==
    \A k \in DOMAIN out :
        (out[k].type = "error" /\ out[k].by \in DOMAIN sessions) =>
            /\ Len(out) = 1
            /\ (\A j \in DOMAIN sessions :
                    SamePair(j, out[k].by) => sessions[j].pc = "done")
                => StreamKey(out[k].room, out[k].cid) \notin DOMAIN active_streams

\* C26: when the follow stream of a task fails, the failure is sent to the
\* client as an error message, and the task ends with its entry removed.
C26_StreamFailureSendsError ==
    \A k \in DOMAIN out :
        (out[k].by \in DOMAIN sessions /\ out[k].state = "error_line") =>
            /\ out[k].type = "error"
            /\ sessions[out[k].by].pc = "done"
            /\ StreamKey(out[k].room, out[k].cid) \notin DOMAIN active_streams

\* C28: a step in which one task ends (failure, cancellation, end of its
\* stream) leaves the registry entry of every other live task as it was: the
\* key of that task stays registered and keeps its flag.
C28_TeardownLeavesOthersAlone ==
    [][ \A i \in DOMAIN sessions : \A j \in DOMAIN sessions :
          LET key == StreamKey(sessions[j].sid, sessions[j].cid)
          IN  ( /\ i # j
                /\ sessions[i].pc # "done"
                /\ sessions'[i].pc = "done"
                /\ sessions[j].pc # "done"
                /\ key \in DOMAIN active_streams ) =>
                    /\ key \in DOMAIN active_streams'
                    /\ active_streams'[key] = active_streams[key]
      ]_vars

\* C31: with two handlers calling is_rate_limited, the bucket of every minute
\* of the window counts exactly the calls of that minute that were admitted,
\* and no minute has more admitted calls than the ceiling.
C31_NoLostUpdate ==
    /\ \A m \in DOMAIN request_counts : CountOf(admitted, m) = request_counts[m]
    /\ \A m \in DOMAIN admitted : admitted[m] <= current_rate_limit

\* C31 witness: both handlers were admitted in the same minute and the bucket
\* of that minute stands at two.
C31_Witness ==
    /\ \A h \in Handlers : pending[h].pc = "idle" /\ pending[h].ok
    /\ pending[1].minute = pending[2].minute
    /\ CountOf(request_counts, pending[1].minute) = 2

\* C32: right after a call of is_rate_limited, admitted or denied, every
\* bucket of the window is of the minute of the call or of one of the two
\* minutes before it, and the cleanup of the call left the count of the
\* minute of the call alone: the bucket holds what it held plus the call itself
\* if it was admitted.
C32_WindowOfThreeMinutes ==
    [][ rl'.n = rl.n + 1 =>
          /\ \A m \in DOMAIN request_counts' : rl'.minute - 2 <= m /\ m <= rl'.minute
          /\ CountOf(request_counts', rl'.minute) =
                CountOf(request_counts, rl'.minute) + (IF rl'.limited THEN 0 ELSE 1)
      ]_vars

\* C32 witness: a call has just removed the bucket of three minutes ago and
\* left a window of three buckets.
C32_Witness ==
    /\ rl.n > 0
    /\ rl.minute = clock
    /\ DOMAIN request_counts = {clock - 2, clock - 1, clock}
    /\ clock = 3

\* C33: from one step to the next the bucket of a minute, while it is in the
\* window, never decreases; an admitted call raises the bucket of its minute
\* by exactly one, a denied call leaves it as it was, the first call of a
\* minute starts the bucket at 1, and no call changes the bucket of another
\* minute that stays in the window.
C33_BucketMonotonic ==
    [][ /\ \A m \in DOMAIN request_counts \cap DOMAIN request_counts' :
              request_counts'[m] >= request_counts[m]
        /\ rl'.n = rl.n + 1 =>
              /\ CountOf(request_counts', rl'.minute) =
                    CountOf(request_counts, rl'.minute) + (IF rl'.limited THEN 0 ELSE 1)
              /\ rl'.idx = 1 => (~rl'.limited /\ request_counts'[rl'.minute] = 1)
              /\ \A m \in DOMAIN request_counts' \ {rl'.minute} :
                    m \in DOMAIN request_counts /\ request_counts'[m] = request_counts[m]
      ]_vars

\* C33 witness: the first call of a minute has started a bucket at 1 next to
\* the bucket of the minute before, which stands at the ceiling.
C33_Witness ==
    /\ rl.idx = 1
    /\ rl.minute > 0
    /\ CountOf(request_counts, rl.minute) = 1
    /\ CountOf(request_counts, rl.minute - 1) = current_rate_limit
    /\ current_rate_limit = 2

\* the connection whose start_log_stream or stop_log_stream request is handled
\* in this step (a start also when it resumes after its sleep)
ActedBy(c) ==
    \/ \E p \in Pairs : p[1] = c /\ sleeping'[p] # sleeping[p]
    \/ Len(sessions') > Len(sessions) /\ sessions'[Len(sessions')].sid = c
    \/ out' # << >> /\ out'[1].type = "log_stream_stopped" /\ out'[1].room = c

\* C34: two different (connection id, container id) pairs have different
\* session keys, and a step that handles a start or stop request of one
\* connection leaves every live session of another connection as it was: the
\* session itself, its registry entry and its flag.
C34_OwnSessionsOnly ==
    [][ /\ \A p \in Pairs : \A q \in Pairs :
              StreamKey(p[1], p[2]) = StreamKey(q[1], q[2]) => p = q
        /\ \A c \in Clients : ActedBy(c) =>
              \A j \in DOMAIN sessions :
                  LET key == StreamKey(sessions[j].sid, sessions[j].cid)
                  IN  (sessions[j].sid # c /\ sessions[j].pc # "done") =>
                        /\ sessions'[j] = sessions[j]
                        /\ key \in DOMAIN active_streams =>
                              /\ key \in DOMAIN active_streams'
                              /\ active_streams'[key] = active_streams[key]
      ]_vars

\* C34 witness: one connection has just been served a stop for a container
\* that another connection is streaming, and the other connection's session
\* is live with its flag clear.
C34_Witness ==
    /\ out # << >>
    /\ out[1].type = "log_stream_stopped"
    /\ \E j \in DOMAIN sessions :
          /\ sessions[j].sid # out[1].room
          /\ sessions[j].cid = out[1].cid
          /\ sessions[j].pc # "done"
          /\ ~StopFlag(active_streams, StreamKey(sessions[j].sid, sessions[j].cid))
    /\ \E j \in DOMAIN sessions : sessions[j].sid = out[1].room

\* C29: the response to a request that the limiter denied has status 429 and
\* no call of the runtime was made for it.
C29_DeniedIs429WithoutRuntime ==
    resp.limited => (resp.status = TooManyRequests /\ ~resp.runtime)

\* C29 witness: a container action was denied by the limiter.
C29_Witness ==
    /\ resp.limited
    /\ resp.route = "container_action"
    /\ rl.limited

\* C30: every step in which an inbound handler sets off a call of the runtime
\* (handle_connect going to its listing, handle_start_log_stream registering a
\* stream or waiting to replace one, a route's handler calling docker_service)
\* is a step in which is_rate_limited was consulted.
C30_EveryHandlerConsultsLimiter ==
    [][ ( \/ \E c \in Clients : connectPc[c] = "out" /\ connectPc'[c] = "fetch"
          \/ Len(sessions') > Len(sessions) /\ sleeping' = sleeping
          \/ \E p \in Pairs : sleeping'[p] > sleeping[p]
          \/ resp' # resp /\ resp'.runtime )
        => rl'.n = rl.n + 1 ]_vars

\* C36: a task that is following has sent exactly one log_update for the
\* initial tail, also when the tail was empty, and one log_update for each of
\* the lines it received since: 1 + got in all.
C36_OneUpdateForTailAndEachLine ==
    \A i \in DOMAIN sessions :
        sessions[i].pc = "follow" =>
            /\ sessions[i].tailSent = 1
            /\ Len(sessions[i].fwd) = sessions[i].got

\* C39: in the step in which a task ends, for whatever reason, its key leaves
\* the registry: no entry is registered under it afterwards.
C39_EndedTaskLeavesNoEntry ==
    [][ \A i \in DOMAIN sessions :
          (sessions[i].pc # "done" /\ sessions'[i].pc = "done") =>
              StreamKey(sessions[i].sid, sessions[i].cid) \notin DOMAIN active_streams'
      ]_vars

\* C27: a task that is following has sent on every numbered line it received,
\* each as one log_update, in the order of arrival: the lines sent are
\* 1, 2, .., got.
C27_EveryLineForwardedInOrder ==
    /\ \A i \in DOMAIN sessions :
          sessions[i].pc = "follow" =>
              sessions[i].fwd = [k \in 1 .. sessions[i].got |-> k]
    /\ Len(out) <= 1

\* C27 witness: a task has received two lines and the second one was just sent
\* to its client.
C27_Witness ==
    \E i \in DOMAIN sessions :
        /\ sessions[i].pc = "follow"
        /\ sessions[i].got = 2
        /\ out # << >>
        /\ out[1].type = "log_update"
        /\ out[1].by = i
        /\ out[1].to = {sessions[i].sid}

C18_MissingPublishedDeleted ==
    (EventHandled /\ EventOfContainer /\ lastFetch.kind = "notfound") =>
        /\ Len(pubs) = 1
        /\ pubs[1].cid = evt.ID
        /\ pubs[1].state = "deleted"

\* C21: the event thread handles the events one at a time in the order of the
\* feed: it takes no event while it is handling one, every publish is the one
\* message for the event being handled, and no client is sent the publish of
\* an event after the publish of a later event.
C21_EventsInOrder ==
    [][ /\ misordered' = {}
        /\ workerPc = "emit" => evt' = evt
        /\ Len(out') <= 1
        /\ \A k \in DOMAIN out' :
              out'[k].type = "container_state_changed" =>
                  (workerPc = "emit" /\ out'[k].cid = evt.ID)
      ]_vars

\* C21 witness: a client was sent the publishes of the first and of the second
\* event of the feed.
C21_Witness ==
    \E c \in Clients : {1, 2} \subseteq delivered[c]

\* C20: once the state deleted was published for a container id, every later
\* publish for that id carries the state deleted.
C20_DeletedIsTerminal ==
    \A k \in DOMAIN out :
        (out[k].type = "container_state_changed" /\ out[k].cid \in deletedIds) =>
            out[k].state = "deleted"

\* ------------------------------------------------------ bridge life claims
\* C14: a call of start() made while the event thread is alive spawns nothing,
\* and at most one event thread is alive at any time, whatever the order of the
\* calls of start() and stop().
C14_StartIdempotent ==
    /\ (call.op = "start" /\ call.wasAlive) => ~call.spawnedNew
    /\ orphans + (IF workerPc # "dead" THEN 1 ELSE 0) <= 1

\* C14 witness: start() was called while the thread was alive, after a stop()
\* that the thread has not yet noticed.
C14_Witness ==
    /\ call.op = "start"
    /\ call.wasAlive
    /\ stop_event
    /\ workerPc = "events"

\* C15: once stop() has set the stop event of a live event thread, the thread
\* eventually ends, also when the runtime delivers no further event.
C15_StopEndsWorker == (stop_event /\ workerPc # "dead") ~> (workerPc = "dead")

\* C16: the event thread never ends because of one event: it ends only when it
\* sees the stop event or when the feed itself fails.
C16_BadEventSkipped == workerPc = "dead" => workerEnd \in {"break", "error"}

\* C17: an error of the feed ends the event thread and no exception leaves it;
\* while the thread is dead nothing is published and only start() brings a
\* thread back, and a start() called on a dead thread spawns a new one.
C17_FatalErrorEndsWorker ==
    [][ /\ ~escaped'
        /\ workerEnd' = "error" => workerPc' = "dead"
        /\ workerPc = "dead" =>
              /\ out' = << >>
              /\ workerPc' # "dead" =>
                    (call'.op = "start" /\ spawned' = spawned + 1 /\ workerPc' = "events")
        /\ (call'.op = "start" /\ ~call'.wasAlive) => call'.spawnedNew
      ]_vars

\* C17 witness: a new thread was spawned by start() after the feed had failed.
C17_Witness ==
    /\ call.op = "start"
    /\ call.ended = "error"
    /\ call.spawnedNew
    /\ workerPc = "events"
    /\ spawned = 2

\* C38: after a call of start(), and as long as the feed has not failed, an
\* event thread is alive and its stop event is clear, also when the start()
\* follows a stop() that the thread has not noticed yet.
C38_StartLeavesLiveWorker ==
    (call.op = "start" /\ workerEnd \in {"", "break"}) =>
        (workerPc # "dead" /\ ~stop_event)

\* ------------------------------------------------------------ connect claims
\* the closed set of states of a container record
StateEnum ==
    {"created", "starting", "running", "restarting", "stopping", "paused", "stopped",
     "deleted"}

\* C11: a connect handler whose snapshot call succeeded has sent exactly one
\* message, an initial_state carrying exactly the containers of the snapshot,
\* for every snapshot, the empty one included.
C11_SnapshotSent ==
    conn.snapshot = "ok" =>
        /\ conn.sent = << "initial_state" >>
        /\ conn.payload = conn.containers

\* C12: no client gets a container_state_changed while its connect handler is
\* still waiting for the snapshot it is going to send.
C12_SnapshotFirst == early = {}

\* C13: a connect handler whose snapshot call failed has sent one error and no
\* initial_state, and has accepted the connection.
C13_SnapshotFailureAccepted ==
    conn.snapshot = "failed" =>
        /\ conn.sent = << "error" >>
        /\ conn.accepted
        /\ connectPc[conn.sid] = "in"

\* C13 witness: a client whose snapshot failed got the error and is connected.
C13_Witness ==
    /\ conn.snapshot = "failed"
    /\ conn.sid \in rooms
    /\ out # << >>
    /\ out[1].type = "error"
    /\ out[1].to = {conn.sid}

\* C19: every state sent to clients, in initial_state and in
\* container_state_changed, is one of the closed set.
C19_StateInEnum ==
    /\ \A i \in DOMAIN conn.payload : conn.payload[i] \in StateEnum
    /\ \A k \in DOMAIN out :
          out[k].type = "container_state_changed" => out[k].state \in StateEnum

====
